---------------------------- MODULE Spec2Model ----------------------------
(***************************************************************************)
(* Model of the pwasm ERC20-style token contract of                        *)
(* src/contract/src/lib.rs (TokenContractInstance).                        *)
(*                                                                         *)
(* Scaling.  The contract works on 32-byte words (H256 keys and values,    *)
(* U256 amounts) and 20-byte addresses.  The model keeps the byte          *)
(* structure and the byte base 256 but shortens the words: an H256 is 3    *)
(* bytes, an Address is 2 bytes (so H256::from(Address) pads with 1 zero   *)
(* byte where the code pads with 12), and a U256 is the big-endian value   *)
(* of 3 bytes, 0 .. 256^3 - 1.  U256 arithmetic is checked: `+` and `-`    *)
(* panic in the code on overflow/underflow, and a panic aborts the call.   *)
(*                                                                         *)
(* Keccak-256 cannot be computed here; keccak_update / keccak_finalize     *)
(* are a stand-in mixing function over the byte stream the code feeds the  *)
(* sponge.  On the accounts of the model it is free of collisions, among   *)
(* the allowance keys and with the balance, total supply and owner keys,   *)
(* as the real hash is taken to be.                                        *)
(***************************************************************************)
EXTENDS Integers, Sequences, FiniteSets, TLC

VARIABLES
    storage,   \* the external key-value store: written H256 keys -> H256 values
    logs,      \* the external event log, in emission order
    call,      \* the most recent call: its method and what it returned
    spent,     \* history: per (owner, spender), amount moved by successful
               \* transferFrom calls since the owner's last approve for the pair
    constructed \* whether the constructor has run on this store

vars == <<storage, logs, call, spent, constructed>>

---------------------------------------------------------------------------
(* Bounds of the exploration *)

\* Calls are explored only while the event log holds fewer entries than this.
MaxLogs == 2

---------------------------------------------------------------------------
(* Types: bytes, H256, Address, U256 *)

H256_zero == <<0, 0, 0>>

U256_from_big_endian(bytes) == bytes[1] * 65536 + bytes[2] * 256 + bytes[3]

\* Variant of U256_into: the bytes in little-endian order
U256_into_little_endian(value) ==
    <<value % 256, (value \div 256) % 256, value \div 65536>>

\* `value.into()`: U256 -> H256 / [u8; 32], big endian
U256_into(value) == <<value \div 65536, (value \div 256) % 256, value % 256>>

U256_max_value == U256_from_big_endian(<<255, 255, 255>>)

\* H256::from(Address): the address right-aligned, zero padded on the left
H256_from(address) == <<0>> \o address

\* The accounts of the test-suite: Address::zero() (the default sender),
\* db6f... (spender) and ea67... (owner / sam), each cut to its first bytes.
Address_zero == <<0, 0>>
spender_address == <<219, 111>>
sam_address == <<234, 103>>
Address == {Address_zero, spender_address, sam_address}

\* Amounts the callers pass: zero, one unit, the maximum.
Amount == {0, 1, U256_max_value}

\* Addresses for the comparison of keys: the accounts and the addresses made
\* of the bytes of the well-known keys
KeyedAddress == Address \cup {<<x, y>> : x \in {0, 1, 2, 3}, y \in {0, 1, 2, 3}}

---------------------------------------------------------------------------
(* Storage keys *)

TOTAL_SUPPLY_KEY == <<2, 0, 0>>
OWNER_KEY == <<3, 0, 0>>

\* Variant of balance_key: the namespace byte of the total supply key
balance_key_supply_namespace(address) == [H256_from(address) EXCEPT ![1] = 2]

\* Variant of balance_key: the namespace byte is put on the last byte
balance_key_last_byte(address) == [H256_from(address) EXCEPT ![3] = 1]

balance_key(address) == [H256_from(address) EXCEPT ![1] = 1]

\* "allowance_key" as bytes
allowance_label == <<97, 108, 108, 111, 119, 97, 110, 99, 101, 95, 107, 101, 121>>

\* Stand-in for the Keccak sponge: update absorbs bytes into the state,
\* finalize squeezes the state out as an H256.
RECURSIVE keccak_update(_, _)
keccak_update(state, bytes) ==
    IF bytes = <<>> THEN state
    ELSE keccak_update((state * 31 + Head(bytes) + 1) % (U256_max_value + 1),
                       Tail(bytes))

keccak_finalize(state) == U256_into(state)

\* The sponge after keccak.update("allowance_key")
keccak_labelled == keccak_update(0, allowance_label)

\* Variant of allowance_key: owner and spender absorbed bytewise combined, so
\* that the order of the two does not matter
allowance_key_unordered(owner, spender) ==
    keccak_finalize(keccak_update(keccak_labelled,
        [i \in DOMAIN owner |-> owner[i] + spender[i]]))

\* Variant of allowance_key: the owner is not hashed
allowance_key_spender_only(owner, spender) ==
    keccak_finalize(keccak_update(keccak_labelled, spender))

allowance_key(owner, spender) ==
    keccak_finalize(keccak_update(keccak_update(keccak_labelled, owner), spender))

\* The allowance keys of the accounts, computed once
allowance_keys ==
    [owner \in Address |-> [spender \in Address |-> allowance_key(owner, spender)]]

---------------------------------------------------------------------------
(* The external store and log (pwasm_ethereum) *)

eth_read(st, key) == IF key \in DOMAIN st THEN st[key] ELSE H256_zero

eth_write(st, key, value) ==
    [k \in (DOMAIN st) \cup {key} |-> IF k = key THEN value ELSE st[k]]

\* Variant of Transfer: the indexed fields change places
Transfer_topics_swapped(from, to, value) ==
    [event |-> "Transfer", topics |-> <<H256_from(to), H256_from(from)>>,
     data |-> U256_into(value)]

Transfer(from, to, value) ==
    [event |-> "Transfer", topics |-> <<H256_from(from), H256_from(to)>>,
     data |-> U256_into(value)]

Approval(owner, spender, value) ==
    [event |-> "Approval", topics |-> <<H256_from(owner), H256_from(spender)>>,
     data |-> U256_into(value)]

---------------------------------------------------------------------------
(* Accessors *)

read_balance_of(st, owner) == U256_from_big_endian(eth_read(st, balance_key(owner)))

read_allowance(st, key) == U256_from_big_endian(eth_read(st, key))

\* Variant of write_allowance: the value is added to the stored allowance
write_allowance_adding(st, key, value) ==
    eth_write(st, key, U256_into(U256_from_big_endian(eth_read(st, key)) + value))

write_allowance(st, key, value) == eth_write(st, key, U256_into(value))

balanceOf(st, owner) == read_balance_of(st, owner)

totalSupply(st) == U256_from_big_endian(eth_read(st, TOTAL_SUPPLY_KEY))

allowance(st, owner, spender) == read_allowance(st, allowance_keys[owner][spender])

---------------------------------------------------------------------------
(* Operations.  A method is a function of the external state (the store *)
(* and the log), the caller eth::sender() and the arguments; it yields the *)
(* external state it leaves behind and what it returns.                   *)

Outcome(st, lg, result) == [storage |-> st, logs |-> lg, result |-> result]

\* The store after constructor(total_supply) called by sender on store st
\* Variant of constructor: the sender is not credited
constructor_sender_uncredited(st, sender, total_supply) ==
    LET s1 == eth_write(st, TOTAL_SUPPLY_KEY, U256_into(total_supply))
    IN  eth_write(s1, OWNER_KEY, H256_from(sender))

constructor(st, sender, total_supply) ==
    LET s1 == eth_write(st, TOTAL_SUPPLY_KEY, U256_into(total_supply))
        s2 == eth_write(s1, balance_key(sender), U256_into(total_supply))
    IN  eth_write(s2, OWNER_KEY, H256_from(sender))

\* Variant of transfer_rejects: no check of the target
transfer_rejects_self_allowed(amount, senderBalance, to, sender) ==
    amount = 0 \/ senderBalance < amount

\* Variant of transfer_rejects: a sender cannot pay its whole balance
transfer_rejects_whole_balance(amount, senderBalance, to, sender) ==
    amount = 0 \/ senderBalance <= amount \/ to = sender

\* The validation of transfer: TRUE when the call is to be rejected
transfer_rejects(amount, senderBalance, to, sender) ==
    amount = 0 \/ senderBalance < amount \/ to = sender

\* Variant of transfer: the sender is debited before the target is checked
transfer_debits_first(st, lg, sender, to, amount) ==
    LET senderBalance == read_balance_of(st, sender)
        recipientBalance == read_balance_of(st, to)
    IN  IF amount = 0 \/ senderBalance < amount
        THEN Outcome(st, lg, "false")
        ELSE LET s1 == eth_write(st, balance_key(sender),
                                 U256_into(senderBalance - amount))
             IN  IF to = sender
                 THEN Outcome(s1, lg, "false")
                 ELSE IF recipientBalance + amount > U256_max_value
                 THEN Outcome(st, lg, "panic")
                 ELSE Outcome(eth_write(s1, balance_key(to),
                                        U256_into(recipientBalance + amount)),
                              Append(lg, Transfer(sender, to, amount)),
                              "true")

transfer(st, lg, sender, to, amount) ==
    LET senderBalance == read_balance_of(st, sender)
        recipientBalance == read_balance_of(st, to)
    IN  IF transfer_rejects(amount, senderBalance, to, sender)
        THEN Outcome(st, lg, "false")
        ELSE IF senderBalance - amount < 0
                \/ recipientBalance + amount > U256_max_value
        THEN Outcome(st, lg, "panic")
        ELSE LET new_sender_balance == senderBalance - amount
                 new_recipient_balance == recipientBalance + amount
                 s1 == eth_write(st, balance_key(sender),
                                 U256_into(new_sender_balance))
                 s2 == eth_write(s1, balance_key(to),
                                 U256_into(new_recipient_balance))
             IN  Outcome(s2, Append(lg, Transfer(sender, to, amount)), "true")

approve(st, lg, sender, spender, value) ==
    Outcome(write_allowance(st, allowance_keys[sender][spender], value),
            Append(lg, Approval(sender, spender, value)),
            "true")

\* Variant of transferFrom_rejects: an allowance cannot be spent whole
transferFrom_rejects_whole_allowance(allowed, amount, fromBalance, to, from) ==
    allowed <= amount \/ amount = 0 \/ fromBalance < amount \/ to = from

\* Variant of transferFrom_rejects: no check of the target
transferFrom_rejects_self_allowed(allowed, amount, fromBalance, to, from) ==
    allowed < amount \/ amount = 0 \/ fromBalance < amount

\* Variant of transferFrom_rejects: the balance of from is not checked
transferFrom_rejects_balance_unchecked(allowed, amount, fromBalance, to, from) ==
    allowed < amount \/ amount = 0 \/ to = from

\* The validation of transferFrom: TRUE when the call is to be rejected
transferFrom_rejects(allowed, amount, fromBalance, to, from) ==
    allowed < amount \/ amount = 0 \/ fromBalance < amount \/ to = from

\* Variant of transferFrom: the lowered allowance is not written back
transferFrom_keeps_allowance(st, lg, sender, from, to, amount) ==
    LET fromBalance == read_balance_of(st, from)
        recipientBalance == read_balance_of(st, to)
        allowed == read_allowance(st, allowance_keys[from][sender])
    IN  IF transferFrom_rejects(allowed, amount, fromBalance, to, from)
        THEN Outcome(st, lg, "false")
        ELSE IF recipientBalance + amount > U256_max_value
        THEN Outcome(st, lg, "panic")
        ELSE LET s2 == eth_write(st, balance_key(from),
                                 U256_into(fromBalance - amount))
                 s3 == eth_write(s2, balance_key(to),
                                 U256_into(recipientBalance + amount))
             IN  Outcome(s3, Append(lg, Transfer(from, to, amount)), "true")

\* Variant of transferFrom: the allowance read is the one given by the caller
\* to from
transferFrom_allowance_of_caller(st, lg, sender, from, to, amount) ==
    LET fromBalance == read_balance_of(st, from)
        recipientBalance == read_balance_of(st, to)
        a_key == allowance_keys[sender][from]
        allowed == read_allowance(st, a_key)
    IN  IF transferFrom_rejects(allowed, amount, fromBalance, to, from)
        THEN Outcome(st, lg, "false")
        ELSE IF allowed - amount < 0
                \/ fromBalance - amount < 0
                \/ recipientBalance + amount > U256_max_value
        THEN Outcome(st, lg, "panic")
        ELSE LET new_allowed == allowed - amount
                 new_from_balance == fromBalance - amount
                 new_recipient_balance == recipientBalance + amount
                 s1 == eth_write(st, a_key, U256_into(new_allowed))
                 s2 == eth_write(s1, balance_key(from),
                                 U256_into(new_from_balance))
                 s3 == eth_write(s2, balance_key(to),
                                 U256_into(new_recipient_balance))
             IN  Outcome(s3, Append(lg, Transfer(from, to, amount)), "true")

transferFrom(st, lg, sender, from, to, amount) ==
    LET fromBalance == read_balance_of(st, from)
        recipientBalance == read_balance_of(st, to)
        a_key == allowance_keys[from][sender]
        allowed == read_allowance(st, a_key)
    IN  IF transferFrom_rejects(allowed, amount, fromBalance, to, from)
        THEN Outcome(st, lg, "false")
        ELSE IF allowed - amount < 0
                \/ fromBalance - amount < 0
                \/ recipientBalance + amount > U256_max_value
        THEN Outcome(st, lg, "panic")
        ELSE LET new_allowed == allowed - amount
                 new_from_balance == fromBalance - amount
                 new_recipient_balance == recipientBalance + amount
                 s1 == eth_write(st, a_key, U256_into(new_allowed))
                 s2 == eth_write(s1, balance_key(from),
                                 U256_into(new_from_balance))
                 s3 == eth_write(s2, balance_key(to),
                                 U256_into(new_recipient_balance))
             IN  Outcome(s3, Append(lg, Transfer(from, to, amount)), "true")

---------------------------------------------------------------------------
(* The state machine: the contract is deployed, then called *)

EmptyStore == [k \in {} |-> H256_zero]

NoSpend == [p \in Address \X Address |-> 0]

Init ==
    \E sender \in Address, total_supply \in Amount :
        /\ storage = constructor(EmptyStore, sender, total_supply)
        /\ logs = <<>>
        /\ call = [method |-> "constructor", result |-> "void"]
        /\ spent = NoSpend
        /\ constructed = TRUE

CallTransfer ==
    /\ Len(logs) < MaxLogs
    /\ \E sender \in Address, to \in Address, amount \in Amount :
           \E r \in {transfer(storage, logs, sender, to, amount)} :
               /\ storage' = r.storage
               /\ logs' = r.logs
               /\ call' = [method |-> "transfer", result |-> r.result]
               /\ UNCHANGED <<spent, constructed>>

CallApprove ==
    /\ Len(logs) < MaxLogs
    /\ \E sender \in Address, spender \in Address, value \in Amount :
           \E r \in {approve(storage, logs, sender, spender, value)} :
               /\ storage' = r.storage
               /\ logs' = r.logs
               /\ call' = [method |-> "approve", result |-> r.result]
               /\ spent' = [spent EXCEPT ![<<sender, spender>>] = 0]
               /\ UNCHANGED constructed

CallTransferFrom ==
    /\ Len(logs) < MaxLogs
    /\ \E sender \in Address, from \in Address, to \in Address, amount \in Amount :
           \E r \in {transferFrom(storage, logs, sender, from, to, amount)} :
               /\ storage' = r.storage
               /\ logs' = r.logs
               /\ call' = [method |-> "transferFrom", result |-> r.result]
               /\ spent' = IF r.result = "true"
                           THEN [spent EXCEPT ![<<from, sender>>] = @ + amount]
                           ELSE spent
               /\ UNCHANGED constructed

Next == CallTransfer \/ CallApprove \/ CallTransferFrom

Spec == Init /\ [][Next]_vars

---------------------------------------------------------------------------
(* The calls a method makes to the host, in program order: the reads and   *)
(* writes of the storage, the validation, and the event.                   *)

host_read(key) == [op |-> "read", key |-> key]
host_check == [op |-> "check"]
host_write(key, value) == [op |-> "write", key |-> key, value |-> value]
host_log(event) == [op |-> "log", event |-> event]
host_panic == [op |-> "panic"]

\* Variant of transfer_trace: the sender is debited before the validation
transfer_trace_debits_first(st, sender, to, amount) ==
    LET senderBalance == read_balance_of(st, sender)
        recipientBalance == read_balance_of(st, to)
        debit == <<host_read(balance_key(sender)),
                   host_write(balance_key(sender),
                              U256_into((senderBalance - amount)
                                            % (U256_max_value + 1))),
                   host_read(balance_key(to)), host_check>>
    IN  IF transfer_rejects(amount, senderBalance, to, sender)
        THEN debit \o <<host_write(balance_key(sender),
                                   U256_into(senderBalance))>>
        ELSE debit \o
             <<host_write(balance_key(to),
                          U256_into(IF to = sender THEN senderBalance
                                    ELSE recipientBalance + amount)),
               host_log(Transfer(sender, to, amount))>>

transfer_trace(st, sender, to, amount) ==
    LET senderBalance == read_balance_of(st, sender)
        recipientBalance == read_balance_of(st, to)
        validation == <<host_read(balance_key(sender)),
                        host_read(balance_key(to)), host_check>>
    IN  IF transfer_rejects(amount, senderBalance, to, sender)
        THEN validation
        ELSE IF senderBalance - amount < 0
                \/ recipientBalance + amount > U256_max_value
        THEN validation \o <<host_panic>>
        ELSE validation \o
             <<host_write(balance_key(sender),
                          U256_into(senderBalance - amount)),
               host_write(balance_key(to),
                          U256_into(recipientBalance + amount)),
               host_log(Transfer(sender, to, amount))>>

transferFrom_trace(st, sender, from, to, amount) ==
    LET fromBalance == read_balance_of(st, from)
        recipientBalance == read_balance_of(st, to)
        a_key == allowance_keys[from][sender]
        allowed == read_allowance(st, a_key)
        validation == <<host_read(balance_key(from)),
                        host_read(balance_key(to)), host_read(a_key),
                        host_check>>
    IN  IF transferFrom_rejects(allowed, amount, fromBalance, to, from)
        THEN validation
        ELSE IF allowed - amount < 0
                \/ fromBalance - amount < 0
                \/ recipientBalance + amount > U256_max_value
        THEN validation \o <<host_panic>>
        ELSE validation \o
             <<host_write(a_key, U256_into(allowed - amount)),
               host_write(balance_key(from),
                          U256_into(fromBalance - amount)),
               host_write(balance_key(to),
                          U256_into(recipientBalance + amount)),
               host_log(Transfer(from, to, amount))>>

---------------------------------------------------------------------------
(* The life of a ledger from its creation.  The entry points deploy and    *)
(* call of the contract are not part of lib.rs; they are taken from the    *)
(* specification of the ledger: the constructor is executed exactly once,  *)
(* before any other operation is callable, and an operation invoked before *)
(* construction, or a second construction, is a fault that is fatal to the *)
(* call and leaves no effect.                                              *)

\* Variant of Endpoint_dispatch_ctor: the constructor can be run again
Endpoint_dispatch_ctor_repeatable(active, st, lg, sender, total_supply) ==
    Outcome(constructor(st, sender, total_supply), lg, "void")

\* deploy: the constructor run through the entry point
Endpoint_dispatch_ctor(active, st, lg, sender, total_supply) ==
    IF active
    THEN Outcome(st, lg, "fault")
    ELSE Outcome(constructor(st, sender, total_supply), lg, "void")

\* Variant of Endpoint_dispatch: methods are callable before construction
Endpoint_dispatch_unguarded(active, st, lg, r) == r

\* call: the outcome r of a method run through the entry point
Endpoint_dispatch(active, st, lg, r) ==
    IF active THEN r ELSE Outcome(st, lg, "fault")

InitCreated ==
    /\ storage = EmptyStore
    /\ logs = <<>>
    /\ call = [method |-> "create", result |-> "void"]
    /\ spent = NoSpend
    /\ constructed = FALSE

Deploy ==
    /\ Len(logs) < MaxLogs
    /\ \E sender \in Address, total_supply \in Amount :
           \E r \in {Endpoint_dispatch_ctor(constructed, storage, logs,
                                            sender, total_supply)} :
               /\ storage' = r.storage
               /\ logs' = r.logs
               /\ call' = [method |-> "constructor", result |-> r.result]
               /\ constructed' = (constructed \/ r.result = "void")
               /\ UNCHANGED spent

DispatchTransfer ==
    /\ Len(logs) < MaxLogs
    /\ \E sender \in Address, to \in Address, amount \in Amount :
           \E r \in {Endpoint_dispatch(constructed, storage, logs,
                          transfer(storage, logs, sender, to, amount))} :
               /\ storage' = r.storage
               /\ logs' = r.logs
               /\ call' = [method |-> "transfer", result |-> r.result]
               /\ UNCHANGED <<spent, constructed>>

DispatchApprove ==
    /\ Len(logs) < MaxLogs
    /\ \E sender \in Address, spender \in Address, value \in Amount :
           \E r \in {Endpoint_dispatch(constructed, storage, logs,
                          approve(storage, logs, sender, spender, value))} :
               /\ storage' = r.storage
               /\ logs' = r.logs
               /\ call' = [method |-> "approve", result |-> r.result]
               /\ spent' = IF r.result = "true"
                           THEN [spent EXCEPT ![<<sender, spender>>] = 0]
                           ELSE spent
               /\ UNCHANGED constructed

DispatchTransferFrom ==
    /\ Len(logs) < MaxLogs
    /\ \E sender \in Address, from \in Address, to \in Address,
          amount \in Amount :
           \E r \in {Endpoint_dispatch(constructed, storage, logs,
                          transferFrom(storage, logs, sender, from, to, amount))} :
               /\ storage' = r.storage
               /\ logs' = r.logs
               /\ call' = [method |-> "transferFrom", result |-> r.result]
               /\ spent' = IF r.result = "true"
                           THEN [spent EXCEPT ![<<from, sender>>] = @ + amount]
                           ELSE spent
               /\ UNCHANGED constructed

NextDeployed ==
    Deploy \/ DispatchTransfer \/ DispatchApprove \/ DispatchTransferFrom

SpecDeploy == InitCreated /\ [][NextDeployed]_vars

---------------------------------------------------------------------------
(* Observations used by the properties *)

RECURSIVE SumBalances(_, _)
SumBalances(st, addresses) ==
    IF addresses = {} THEN 0
    ELSE LET a == CHOOSE x \in addresses : TRUE
         IN  balanceOf(st, a) + SumBalances(st, addresses \ {a})

Returned(method, result) == call = [method |-> method, result |-> result]

\* Log after is log before plus exactly one event, with this name and these
\* decoded fields
Emitted(before, after, event, a, b, value) ==
    /\ Len(after) = Len(before) + 1
    /\ SubSeq(after, 1, Len(before)) = before
    /\ after[Len(after)].event = event
    /\ after[Len(after)].topics = <<H256_from(a), H256_from(b)>>
    /\ U256_from_big_endian(after[Len(after)].data) = value

\* An unchanged store shows unchanged balances and allowances
BalancesSameExcept(before, after, addresses) ==
    \/ after = before
    \/ \A a \in Address \ addresses : balanceOf(after, a) = balanceOf(before, a)

AllowancesSameExcept(before, after, pairs) ==
    \/ after = before
    \/ \A o \in Address, s \in Address :
           <<o, s>> \notin pairs
               => allowance(after, o, s) = allowance(before, o, s)

TransferLogged == \E i \in 1..Len(logs) : logs[i].event = "Transfer"

---------------------------------------------------------------------------
(* Properties.  The ones about a call quantify over every call that can be *)
(* made in a reachable state.                                              *)

\* C1 Conservation: in every reachable state the balances of all addresses
\* sum to totalSupply().
Conservation == SumBalances(storage, Address) = totalSupply(storage)

\* C1 witness: a delegated transfer has just succeeded and tokens sit on
\* two different accounts.
ConservationWitness ==
    /\ Returned("transferFrom", "true")
    /\ \E a \in Address, b \in Address :
           a # b /\ balanceOf(storage, a) > 0 /\ balanceOf(storage, b) > 0

\* C2 Rejection leaves state untouched: a transfer or transferFrom call that
\* returns false changes no balance, no allowance, not the total supply, not
\* the owner slot and not the event log (it leaves the whole store and the
\* whole log as they were).
RejectionLeavesStateUntouched ==
    [](/\ \A sender \in Address, to \in Address, amount \in Amount :
            \A r \in {transfer(storage, logs, sender, to, amount)} :
                r.result = "false" => r.storage = storage /\ r.logs = logs
       /\ \A sender \in Address, from \in Address, to \in Address,
             amount \in Amount :
            \A r \in {transferFrom(storage, logs, sender, from, to, amount)} :
                r.result = "false" => r.storage = storage /\ r.logs = logs)

\* C2 witness: a transferFrom was rejected in a state that holds an
\* allowance, tokens and log entries.
RejectionWitness ==
    /\ Returned("transferFrom", "false")
    /\ logs # <<>>
    /\ \E o \in Address, s \in Address :
           allowance(storage, o, s) > 0 /\ balanceOf(storage, o) > 0

\* C3 Effect of a successful transfer: the sender's balance falls by amount,
\* the recipient's rises by amount, every other balance, every allowance and
\* the total supply stay, and exactly one Transfer(sender, to, amount) event
\* is appended.
TransferEffect ==
    [](\A sender \in Address, to \in Address, amount \in Amount :
           \A r \in {transfer(storage, logs, sender, to, amount)} :
               r.result = "true"
               => /\ balanceOf(r.storage, sender) = balanceOf(storage, sender) - amount
                  /\ balanceOf(r.storage, to) = balanceOf(storage, to) + amount
                  /\ BalancesSameExcept(storage, r.storage, {sender, to})
                  /\ AllowancesSameExcept(storage, r.storage, {})
                  /\ totalSupply(r.storage) = totalSupply(storage)
                  /\ Emitted(logs, r.logs, "Transfer", sender, to, amount))

\* C3 witness: a transfer has just succeeded and left its sender with
\* tokens, in a state that also holds an allowance.
TransferEffectWitness ==
    /\ Returned("transfer", "true")
    /\ logs[Len(logs)].event = "Transfer"
    /\ \E a \in Address :
           logs[Len(logs)].topics[1] = H256_from(a) /\ balanceOf(storage, a) > 0
    /\ \E o \in Address, s \in Address : allowance(storage, o, s) > 0

\* C4 Acceptance condition of transfer: the call returns true exactly when
\* amount # 0, balanceOf(sender) >= amount and to # sender, and false in
\* every other case.
TransferAcceptance ==
    [](\A sender \in Address, to \in Address, amount \in Amount :
           transfer(storage, logs, sender, to, amount).result =
               IF amount # 0 /\ balanceOf(storage, sender) >= amount /\ to # sender
               THEN "true" ELSE "false")

\* C4 witness: after a transfer was accepted one was rejected, in a state
\* where a sender can pay exactly its whole balance and not more.
TransferAcceptanceWitness ==
    /\ Returned("transfer", "false")
    /\ TransferLogged
    /\ \E a \in Address, b \in Address :
           /\ a # b
           /\ balanceOf(storage, a) = 1
           /\ transfer(storage, logs, a, b, 1).result = "true"
           /\ transfer(storage, logs, a, b, U256_max_value).result = "false"

\* C5 Effect of a successful transferFrom: allowance(from, caller) falls by
\* amount, the balance of from falls by amount, the balance of to rises by
\* amount, every other balance and every other allowance pair stay, and
\* exactly one Transfer(from, to, amount) event - naming the token owner,
\* not the caller - is appended.
TransferFromEffect ==
    [](\A sender \in Address, from \in Address, to \in Address, amount \in Amount :
           \A r \in {transferFrom(storage, logs, sender, from, to, amount)} :
               r.result = "true"
               => /\ allowance(r.storage, from, sender)
                         = allowance(storage, from, sender) - amount
                  /\ balanceOf(r.storage, from) = balanceOf(storage, from) - amount
                  /\ balanceOf(r.storage, to) = balanceOf(storage, to) + amount
                  /\ BalancesSameExcept(storage, r.storage, {from, to})
                  /\ AllowancesSameExcept(storage, r.storage, {<<from, sender>>})
                  /\ Emitted(logs, r.logs, "Transfer", from, to, amount))

\* C5 witness: a transferFrom has just succeeded for a caller that is
\* neither the owner of the tokens nor their recipient.
TransferFromEffectWitness ==
    /\ Returned("transferFrom", "true")
    /\ \E c \in Address, from \in Address, to \in Address :
           /\ c # from /\ c # to
           /\ logs[Len(logs)].topics = <<H256_from(from), H256_from(to)>>
           /\ spent[<<from, c>>] > 0
           /\ balanceOf(storage, to) > 0

\* C6 Acceptance condition of transferFrom: the call returns true exactly
\* when allowance(from, caller) >= amount, amount # 0, balanceOf(from) >=
\* amount and to # from, and false otherwise (so also with a sufficient
\* allowance and too small a balance, and the other way round).
TransferFromAcceptance ==
    [](\A sender \in Address, from \in Address, to \in Address, amount \in Amount :
           transferFrom(storage, logs, sender, from, to, amount).result =
               IF /\ allowance(storage, from, sender) >= amount
                  /\ amount # 0
                  /\ balanceOf(storage, from) >= amount
                  /\ to # from
               THEN "true" ELSE "false")

\* C6 witness: a transferFrom was rejected in a state where one call fails
\* only for the balance, another only for the allowance, and a third is
\* accepted.
TransferFromAcceptanceWitness ==
    /\ Returned("transferFrom", "false")
    /\ \E c \in Address, d \in Address, from \in Address, to \in Address :
           /\ to # from
           /\ balanceOf(storage, from) = 1
           /\ allowance(storage, from, c) = U256_max_value
           /\ allowance(storage, from, d) = 0
           /\ transferFrom(storage, logs, c, from, to, U256_max_value).result = "false"
           /\ transferFrom(storage, logs, d, from, to, 1).result = "false"
           /\ transferFrom(storage, logs, c, from, to, 1).result = "true"

\* C7 Approval overwrite: approve(spender, value) by owner returns true for
\* every value, leaves allowance(owner, spender) = value whatever it was
\* before, and appends exactly one Approval(owner, spender, value) event.
ApprovalOverwrite ==
    [](\A sender \in Address, spender \in Address, value \in Amount :
           \A r \in {approve(storage, logs, sender, spender, value)} :
               /\ r.result = "true"
               /\ allowance(r.storage, sender, spender) = value
               /\ Emitted(logs, r.logs, "Approval", sender, spender, value))

\* C7 witness: the second of two approvals of one owner for one spender has
\* just returned; both values are positive, the second exceeds the owner's
\* balance, and the allowance is the second value.
ApprovalOverwriteWitness ==
    /\ Returned("approve", "true")
    /\ Len(logs) = 2
    /\ logs[1].event = "Approval"
    /\ logs[2].event = "Approval"
    /\ logs[1].topics = logs[2].topics
    /\ U256_from_big_endian(logs[1].data) = 1
    /\ U256_from_big_endian(logs[2].data) = U256_max_value
    /\ \E o \in Address, s \in Address :
           /\ logs[2].topics = <<H256_from(o), H256_from(s)>>
           /\ allowance(storage, o, s) = U256_max_value
           /\ balanceOf(storage, o) < U256_max_value

\* C8 Self-transfer always rejected: for every address x and positive amount
\* transfer by x to x and transferFrom(x, x) by any caller return false and
\* leave the store and the log as they were, also with a sufficient balance
\* and allowance.
SelfTransferRejected ==
    [](\A x \in Address, sender \in Address, amount \in Amount \ {0} :
           \A r \in {transfer(storage, logs, x, x, amount),
                     transferFrom(storage, logs, sender, x, x, amount)} :
               /\ r.result = "false"
               /\ r.storage = storage
               /\ r.logs = logs)

\* C8 witness: a transferFrom was rejected in a state where some x holds
\* tokens and has granted an allowance, so that only the self-target stands
\* in the way of transferFrom(x, x, 1).
SelfTransferWitness ==
    /\ Returned("transferFrom", "false")
    /\ \E x \in Address, c \in Address, other \in Address :
           /\ other # x
           /\ balanceOf(storage, x) >= 1
           /\ allowance(storage, x, c) >= 1
           /\ transferFrom(storage, logs, c, x, other, 1).result = "true"
           /\ transfer(storage, logs, x, other, 1).result = "true"

\* The value of the last Approval(owner, spender, _) in the log, 0 if none
RECURSIVE Approved(_, _, _)
Approved(lg, owner, spender) ==
    IF lg = <<>> THEN 0
    ELSE LET e == lg[Len(lg)]
         IN  IF e.event = "Approval"
                /\ e.topics = <<H256_from(owner), H256_from(spender)>>
             THEN U256_from_big_endian(e.data)
             ELSE Approved(SubSeq(lg, 1, Len(lg) - 1), owner, spender)

TotalSupplyImmutable == [][totalSupply(storage') = totalSupply(storage)]_vars

\* C10 witness: after an accepted transfer a call was rejected, the account
\* Address::zero() holds tokens, and the total supply is the maximum.
TotalSupplyWitness ==
    /\ Returned("transfer", "false")
    /\ TransferLogged
    /\ balanceOf(storage, Address_zero) > 0
    /\ totalSupply(storage) = U256_max_value

\* C11 Construction gives the whole supply to the creator: run on the empty
\* store by any creator with any supply from 0 to the maximum, the
\* constructor leaves balanceOf(creator) equal to the supply, every other
\* balance 0, every allowance 0, the creator in the owner slot and
\* totalSupply() equal to the supply; the constructor call leaves the event
\* log empty.
ConstructionGivesSupply ==
    [](/\ storage = EmptyStore =>
            \A sender \in Address, total_supply \in Amount :
                \A st \in {constructor(storage, sender, total_supply)} :
                    /\ balanceOf(st, sender) = total_supply
                    /\ \A a \in Address \ {sender} : balanceOf(st, a) = 0
                    /\ \A o \in Address, s \in Address :
                           allowance(st, o, s) = 0
                    /\ eth_read(st, OWNER_KEY) = H256_from(sender)
                    /\ totalSupply(st) = total_supply
       /\ Returned("constructor", "void") =>
            /\ logs = <<>>
            /\ \A a \in Address :
                   balanceOf(storage, a) =
                       IF eth_read(storage, OWNER_KEY) = H256_from(a)
                       THEN totalSupply(storage) ELSE 0
            /\ \A o \in Address, s \in Address : allowance(storage, o, s) = 0)

\* C11 witness: the constructor has just run on the empty store for the
\* creator sam with the maximum supply.
ConstructionWitness ==
    /\ Returned("constructor", "void")
    /\ constructed
    /\ eth_read(storage, OWNER_KEY) = H256_from(sam_address)
    /\ balanceOf(storage, sam_address) = U256_max_value
    /\ totalSupply(storage) = U256_max_value

\* C12 Arithmetic faults are unreachable: in every state reachable after one
\* construction with any supply up to the maximum, no transfer and no
\* transferFrom call, by any caller with any arguments, evaluates a
\* subtraction below zero or an addition above the maximum (the checked
\* arithmetic never faults), and no stored value is a wrapped one: every
\* balance is at most the total supply and every allowance is the approved
\* value less what has been spent of it.
NoArithmeticFault ==
    [](/\ \A sender \in Address, to \in Address, amount \in Amount :
            transfer(storage, logs, sender, to, amount).result # "panic"
       /\ \A sender \in Address, from \in Address, to \in Address,
             amount \in Amount :
            transferFrom(storage, logs, sender, from, to, amount).result
                # "panic"
       /\ \A a \in Address : balanceOf(storage, a) <= totalSupply(storage)
       /\ \A o \in Address, s \in Address :
            allowance(storage, o, s) = Approved(logs, o, s) - spent[<<o, s>>])

\* C12 witness: the supply is the maximum, one account holds all of it but
\* one unit, and the transfer of that unit back to it, which brings its
\* balance to the maximum, is accepted.
NoArithmeticFaultWitness ==
    \E a \in Address, b \in Address :
        /\ a # b
        /\ totalSupply(storage) = U256_max_value
        /\ balanceOf(storage, a) = U256_max_value - 1
        /\ balanceOf(storage, b) = 1
        /\ transfer(storage, logs, b, a, 1).result = "true"

\* C13 Nothing succeeds before construction: on a store on which the
\* constructor has not run, every transfer, transferFrom and approve call,
\* by any caller with any arguments, does not return true and changes no
\* balance, no allowance and not the event log; such a store shows only
\* zero balances, zero allowances and an empty log.
NothingBeforeConstruction ==
    [](~constructed =>
        /\ \A sender \in Address, to \in Address, amount \in Amount :
              \A r \in {Endpoint_dispatch(constructed, storage, logs,
                             transfer(storage, logs, sender, to, amount))} :
                  /\ r.result # "true"
                  /\ BalancesSameExcept(storage, r.storage, {})
                  /\ AllowancesSameExcept(storage, r.storage, {})
                  /\ r.logs = logs
        /\ \A sender \in Address, spender \in Address, value \in Amount :
              \A r \in {Endpoint_dispatch(constructed, storage, logs,
                             approve(storage, logs, sender, spender, value))} :
                  /\ r.result # "true"
                  /\ BalancesSameExcept(storage, r.storage, {})
                  /\ AllowancesSameExcept(storage, r.storage, {})
                  /\ r.logs = logs
        /\ \A sender \in Address, from \in Address, to \in Address,
              amount \in Amount :
              \A r \in {Endpoint_dispatch(constructed, storage, logs,
                             transferFrom(storage, logs, sender, from, to,
                                          amount))} :
                  /\ r.result # "true"
                  /\ BalancesSameExcept(storage, r.storage, {})
                  /\ AllowancesSameExcept(storage, r.storage, {})
                  /\ r.logs = logs
        /\ logs = <<>>
        /\ \A a \in Address : balanceOf(storage, a) = 0
        /\ \A o \in Address, s \in Address : allowance(storage, o, s) = 0)

\* C13 witness: an approve call was made before the constructor has run.
NothingBeforeConstructionWitness ==
    /\ ~constructed
    /\ Returned("approve", "fault")

\* C14 Construction happens once: once the constructor has run, a further
\* invocation of it, by the same or another caller with the same or another
\* supply, changes neither the total supply nor the owner slot nor any
\* balance.
ConstructionOnce ==
    [](constructed =>
        \A sender \in Address, total_supply \in Amount :
            \A r \in {Endpoint_dispatch_ctor(constructed, storage, logs,
                                             sender, total_supply)} :
                /\ totalSupply(r.storage) = totalSupply(storage)
                /\ eth_read(r.storage, OWNER_KEY) = eth_read(storage, OWNER_KEY)
                /\ BalancesSameExcept(storage, r.storage, {}))

\* C14 witness: after a transfer moved tokens off the creator's account the
\* constructor was invoked again.
ConstructionOnceWitness ==
    /\ constructed
    /\ Returned("constructor", "fault")
    /\ TransferLogged
    /\ \E a \in Address :
           /\ eth_read(storage, OWNER_KEY) = H256_from(a)
           /\ balanceOf(storage, a) < totalSupply(storage)

\* The store and the log after the host calls of a trace, applied in order
RECURSIVE Replay(_, _, _)
Replay(trace, st, lg) ==
    IF trace = <<>>
    THEN [storage |-> st, logs |-> lg]
    ELSE LET c == Head(trace)
         IN  IF c.op = "write"
             THEN Replay(Tail(trace), eth_write(st, c.key, c.value), lg)
             ELSE IF c.op = "log"
             THEN Replay(Tail(trace), st, Append(lg, c.event))
             ELSE Replay(Tail(trace), st, lg)

\* Reads and validation come before the first write and the writes before
\* the event: a write is followed by a write or the event, and the event is
\* followed by nothing
ValidateApplyEmit(trace) ==
    \A i \in 1..(Len(trace) - 1) :
        /\ trace[i].op # "log"
        /\ trace[i].op = "write" => trace[i + 1].op \in {"write", "log"}

\* C15 Validate, then apply, then emit: within one transfer or transferFrom
\* call every storage read and the validation come before the first storage
\* write, all writes come before the event, and a call that is not accepted
\* performs no write and emits no event, so that it leaves no part of the
\* writes behind; an accepted call performs its writes and emits one event.
ValidateBeforeApplyBeforeEmit ==
    [](/\ \A sender \in Address, to \in Address, amount \in Amount :
            \A r \in {transfer(storage, logs, sender, to, amount)} :
              \A t \in {transfer_trace(storage, sender, to, amount)} :
                /\ ValidateApplyEmit(t)
                /\ Replay(t, storage, logs)
                       = [storage |-> r.storage, logs |-> r.logs]
                /\ r.result = "true" <=> t[Len(t)].op = "log"
                /\ r.result # "true" =>
                       \A i \in 1..Len(t) : t[i].op \notin {"write", "log"}
       /\ \A sender \in Address, from \in Address, to \in Address,
             amount \in Amount :
            \A r \in {transferFrom(storage, logs, sender, from, to, amount)} :
              \A t \in {transferFrom_trace(storage, sender, from, to,
                                            amount)} :
                /\ ValidateApplyEmit(t)
                /\ Replay(t, storage, logs)
                       = [storage |-> r.storage, logs |-> r.logs]
                /\ r.result = "true" <=> t[Len(t)].op = "log"
                /\ r.result # "true" =>
                       \A i \in 1..Len(t) : t[i].op \notin {"write", "log"})

\* C15 witness: in one state a transferFrom call of one unit is accepted,
\* with three reads, the validation, three writes and the event, and a
\* transfer call by the same owner of more than it holds is rejected after
\* its two reads and the validation.
ValidateApplyEmitWitness ==
    \E sender \in Address, from \in Address, to \in Address :
        /\ transferFrom(storage, logs, sender, from, to, 1).result = "true"
        /\ Len(transferFrom_trace(storage, sender, from, to, 1)) = 8
        /\ transfer(storage, logs, from, to, U256_max_value).result = "false"
        /\ Len(transfer_trace(storage, from, to, U256_max_value)) = 3

\* C16 Balance keys are injective and namespaced: two different addresses
\* have different balance keys, and no balance key is the total supply key
\* or the owner key; so a write of one address's balance sets that balance
\* and changes no other balance, not the total supply and not the owner
\* slot.
BalanceKeysInjective ==
    [](/\ \A a \in KeyedAddress :
            /\ balance_key(a) \notin {TOTAL_SUPPLY_KEY, OWNER_KEY}
            /\ \A b \in KeyedAddress \ {a} : balance_key(a) # balance_key(b)
       /\ \A a \in Address, value \in Amount :
            \A st \in {eth_write(storage, balance_key(a), U256_into(value))} :
                /\ read_balance_of(st, a) = value
                /\ \A b \in KeyedAddress \ {a} :
                       read_balance_of(st, b) = read_balance_of(storage, b)
                /\ totalSupply(st) = totalSupply(storage)
                /\ eth_read(st, OWNER_KEY) = eth_read(storage, OWNER_KEY))

\* C16 witness: balances have been written for Address::zero(), whose key
\* differs from the well-known keys in the namespace byte only, and for
\* sam, next to a non-zero total supply and owner slot.
BalanceKeysWitness ==
    /\ balance_key(Address_zero) \in DOMAIN storage
    /\ balance_key(sam_address) \in DOMAIN storage
    /\ balanceOf(storage, Address_zero) = 1
    /\ balanceOf(storage, sam_address) > 1
    /\ eth_read(storage, OWNER_KEY) = H256_from(sam_address)

\* C17 Allowance provenance and frame: a transfer call changes no
\* allowance; an approve call by o for s sets allowance(o, s) to the value
\* given and changes no other pair (not allowance(s, o) either) and no
\* balance; a transferFrom call by s from o lowers allowance(o, s) by the
\* amount when it returns true, leaves it as it is otherwise, and changes no
\* other pair.  So allowance(o, s) changes only by an approve of o or an
\* accepted transferFrom of s, and no call by anyone but o increases it.
AllowanceProvenance ==
    [](/\ \A sender \in Address, to \in Address, amount \in Amount :
            \A r \in {transfer(storage, logs, sender, to, amount)} :
                AllowancesSameExcept(storage, r.storage, {})
       /\ \A sender \in Address, spender \in Address, value \in Amount :
            \A r \in {approve(storage, logs, sender, spender, value)} :
                /\ allowance(r.storage, sender, spender) = value
                /\ AllowancesSameExcept(storage, r.storage,
                                        {<<sender, spender>>})
                /\ BalancesSameExcept(storage, r.storage, {})
       /\ \A sender \in Address, from \in Address, to \in Address,
             amount \in Amount :
            \A r \in {transferFrom(storage, logs, sender, from, to, amount)} :
                IF r.result = "true"
                THEN /\ allowance(r.storage, from, sender)
                            = allowance(storage, from, sender) - amount
                     /\ AllowancesSameExcept(storage, r.storage,
                                             {<<from, sender>>})
                ELSE AllowancesSameExcept(storage, r.storage, {}))

\* C17 witness: an owner approved a spender for the maximum, the spender
\* moved one unit with transferFrom, and the allowance of the reverse pair
\* is zero.
AllowanceProvenanceWitness ==
    \E o \in Address, s \in Address :
        /\ o # s
        /\ Returned("transferFrom", "true")
        /\ Approved(logs, o, s) = U256_max_value
        /\ spent[<<o, s>>] = 1
        /\ allowance(storage, o, s) = U256_max_value - 1
        /\ allowance(storage, s, o) = 0

\* No Approval of owner for spender is in the log
NeverApproved(lg, owner, spender) ==
    \A i \in 1..Len(lg) :
        ~(/\ lg[i].event = "Approval"
          /\ lg[i].topics = <<H256_from(owner), H256_from(spender)>>)

\* C18 Debits are authorized: the balance of an address a decreases in a
\* call only if the call is a transfer made by a, or a transferFrom with
\* from = a made by a caller whose allowance from a was at least the amount
\* when the call started; approve lowers no balance; and a transferFrom by
\* a caller that a never approved does not lower a's balance.
DebitsAuthorized ==
    [](/\ \A sender \in Address, to \in Address, amount \in Amount :
            \A r \in {transfer(storage, logs, sender, to, amount)} :
                \/ r.storage = storage
                \/ \A a \in Address \ {sender} :
                       balanceOf(r.storage, a) >= balanceOf(storage, a)
       /\ \A sender \in Address, spender \in Address, value \in Amount :
            \A r \in {approve(storage, logs, sender, spender, value)} :
                \A a \in Address :
                    balanceOf(r.storage, a) >= balanceOf(storage, a)
       /\ \A sender \in Address, from \in Address, to \in Address,
             amount \in Amount :
            \A r \in {transferFrom(storage, logs, sender, from, to, amount)} :
                \/ r.storage = storage
                \/ /\ allowance(storage, from, sender) >= amount
                   /\ ~NeverApproved(logs, from, sender)
                   /\ \A a \in Address \ {from} :
                          balanceOf(r.storage, a) >= balanceOf(storage, a))

\* C18 witness: a spender approved by an owner has moved tokens off the
\* owner's account, and the transferFrom of one unit by a caller the owner
\* never approved is rejected although the owner still holds tokens.
DebitsAuthorizedWitness ==
    \E a \in Address, c \in Address, d \in Address :
        /\ a # c /\ a # d /\ c # d
        /\ Returned("transferFrom", "true")
        /\ spent[<<a, c>>] > 0
        /\ NeverApproved(logs, a, d)
        /\ balanceOf(storage, a) >= 1
        /\ transferFrom(storage, logs, d, a, c, 1).result = "false"

\* What the Transfer events of a log say an address has received less what
\* they say it has sent
RECURSIVE Journal(_, _)
Journal(lg, a) ==
    IF lg = <<>>
    THEN 0
    ELSE LET e == Head(lg)
             value == U256_from_big_endian(e.data)
         IN  (IF e.event = "Transfer" /\ e.topics[2] = H256_from(a)
              THEN value ELSE 0)
             - (IF e.event = "Transfer" /\ e.topics[1] = H256_from(a)
                THEN value ELSE 0)
             + Journal(Tail(lg), a)

\* What the constructor gave an address: the total supply to the creator
InitialAllocation(st, a) ==
    IF eth_read(st, OWNER_KEY) = H256_from(a) THEN totalSupply(st) ELSE 0

\* C19 The event log is a faithful journal: every transfer, transferFrom
\* and approve call that returns true adds exactly one entry to the log and
\* every other call adds none (the constructor adds none either), so that
\* the log has as many entries as calls have returned true; and the balance
\* of every address is what the constructor gave it plus the values of the
\* logged Transfer events to it less the values of those from it.
JournalFaithful ==
    [](/\ \A a \in Address :
            balanceOf(storage, a)
                = InitialAllocation(storage, a) + Journal(logs, a)
       /\ Returned("constructor", "void") => logs = <<>>
       /\ \A sender \in Address, to \in Address, amount \in Amount :
            \A r \in {transfer(storage, logs, sender, to, amount)} :
                IF r.result = "true"
                THEN /\ Len(r.logs) = Len(logs) + 1
                     /\ SubSeq(r.logs, 1, Len(logs)) = logs
                ELSE r.logs = logs
       /\ \A sender \in Address, spender \in Address, value \in Amount :
            \A r \in {approve(storage, logs, sender, spender, value)} :
                IF r.result = "true"
                THEN /\ Len(r.logs) = Len(logs) + 1
                     /\ SubSeq(r.logs, 1, Len(logs)) = logs
                ELSE r.logs = logs
       /\ \A sender \in Address, from \in Address, to \in Address,
             amount \in Amount :
            \A r \in {transferFrom(storage, logs, sender, from, to, amount)} :
                IF r.result = "true"
                THEN /\ Len(r.logs) = Len(logs) + 1
                     /\ SubSeq(r.logs, 1, Len(logs)) = logs
                ELSE r.logs = logs)

\* C19 witness: after an accepted transfer, the only entry of the log, a
\* transferFrom call was rejected; an account other than the creator holds
\* what the log says it received.
JournalFaithfulWitness ==
    /\ Returned("transferFrom", "false")
    /\ Len(logs) = 1
    /\ TransferLogged
    /\ \E a \in Address :
           /\ InitialAllocation(storage, a) = 0
           /\ Journal(logs, a) > 0
           /\ balanceOf(storage, a) = Journal(logs, a)

===========================================================================
